---- MODULE Spec2Model ----
(***************************************************************************)
(* Session lifecycle of the dead-inside backend: the /zombie turn handler  *)
(* (app/api/routes/root.py), the legacy chat handlers                      *)
(* (app/api/routes/legacy_chat.py), the conversation helpers of            *)
(* app/core/llm.py and the Redis wrapper app/core/redis_client.py.         *)
(*                                                                         *)
(* Every await of a handler is a suspension point, so a handler is a       *)
(* small process: one action per stretch of code between two awaits that   *)
(* touch the shared store or the completion service.                       *)
(***************************************************************************)
EXTENDS Integers, Sequences, FiniteSets, TLC

----------------------------------------------------------------------------
(* Bounds of the model *)

\* number of requests issued in one behaviour
MaxTurns == 2
\* number of transport failures of the store injected in one behaviour
MaxFaults == 1

\* request slots: at most two requests are in flight at once
Reqs == {"r1", "r2"}
\* character ids; a /zombie conversation is stored under its character id
Chars == {"c1"}
\* conversation ids: a /zombie conversation has the id of its character
ConvIds == Chars

----------------------------------------------------------------------------
(* Program constants *)

MinScore == 0
MaxScore == 100
InitialScore == 50
MinDelta == -50
MaxDelta == 50

\* the emotional_change values the completion service is sampled at
Deltas == {MinDelta, 0, 5, MaxDelta}
\* an emotional_change outside the schema's bounds
BadDelta == MaxDelta + 10
Comments == {"hi"}

\* audio_file_path of a /zombie request: absent, a file that transcribes to
\* text, a path that does not exist, a file that cannot be read, a file that
\* transcribes to blank text, a file on which transcription raises
Audio == {"none", "speech", "missing", "unreadable", "silent", "stt_error"}

----------------------------------------------------------------------------
(* Entity model *)

NoTitle == <<>>

\* Message(role, content); ids and timestamps are not modelled
Message(role, content) == [role |-> role, content |-> content]

\* the value standing for None / a key without a record
NoRecord ==
  [id |-> "none", character_id |-> "none", messages |-> <<>>,
   emotional_state |-> -1, title |-> NoTitle]

\* Conversation(id=..., character_id=...) with the field defaults
Conversation(id, character_id) ==
  [id |-> id, character_id |-> character_id, messages |-> <<>>,
   emotional_state |-> InitialScore, title |-> NoTitle]

NoResponse == [emotional_change |-> 0, comment |-> "none"]

NoResult ==
  [status |-> 0, detail |-> "none", transcription |-> "",
   character_response |-> "none", emotional_change |-> 0,
   emotional_state |-> -1, session_ended |-> FALSE]

Min(a, b) == IF a < b THEN a ELSE b
Max(a, b) == IF a > b THEN a ELSE b

\* the clamp with its upper bound forgotten
ClampNoUpperBound(x) == Max(MinScore, x)

\* max(0, min(100, new_emotional_state))
Clamp(x) == Max(MinScore, Min(MaxScore, x))

\* the termination test with strict comparisons
SessionEndedStrict(s) == s < MinScore \/ s > MaxScore

\* conversation.emotional_state <= 0 or conversation.emotional_state >= 100
SessionEnded(s) == s <= MinScore \/ s >= MaxScore

\* the ge=0, le=100 constraint that Conversation(**data) validates
ValidScore(s) == s >= MinScore /\ s <= MaxScore

\* transcribe_audio on the readable files of the model
Transcribe(audio) == IF audio = "speech" THEN "hello" ELSE ""

\* f"Zombie Therapy: {transcription[:30]}..." / "Zombie Therapy: Initial Session"
ZombieTitle(audio, transcription) ==
  IF audio # "none" THEN <<"Zombie Therapy", transcription>>
  ELSE <<"Zombie Therapy", "Initial Session">>

InitialPrompt == "initial_prompt"

----------------------------------------------------------------------------
(* Record store: RedisClient.  `ok` is FALSE when the Redis call raises;   *)
(* every method catches the exception and returns None / False.            *)

\* RedisClient.get_conversation: the record, or None when absent or on error
redis_get_conversation(store, id, ok) ==
  IF ok /\ store[id] # NoRecord THEN store[id] ELSE NoRecord

\* RedisClient.save_conversation: the store after the call; it returns ok
redis_save_conversation(store, id, data, ok) ==
  IF ok THEN [store EXCEPT ![id] = data] ELSE store

\* RedisClient.get_character: truthy exactly when a record was read
redis_get_character(chars, id, ok) == ok /\ id \in chars

\* the lookup with the `if not character_data` test left out
get_character_context_unchecked(chars, id, ok) == TRUE

\* get_character_context_from_redis of routes/root.py: TRUE when a
\* CharacterContext is returned, FALSE when it raises 404
get_character_context_from_redis(chars, id, ok) ==
  redis_get_character(chars, id, ok)

----------------------------------------------------------------------------
(* Response generator gateway *)

\* what the completion service may answer: a JSON object (possibly with an
\* out-of-range emotional_change or an extra field), text that is not JSON,
\* or a transport/model error
RawReplies ==
  [kind : {"json"}, emotional_change : Deltas, comment : Comments,
   extra : {FALSE}]
  \cup {[kind |-> "json", emotional_change |-> BadDelta, comment |-> "hi",
         extra |-> FALSE],
        [kind |-> "json", emotional_change |-> 5, comment |-> "hi",
         extra |-> TRUE],
        [kind |-> "not_json", emotional_change |-> 0, comment |-> "none",
         extra |-> FALSE],
        [kind |-> "transport_error", emotional_change |-> 0,
         comment |-> "none", extra |-> FALSE]}

\* no reply received
NoReply ==
  [kind |-> "none", emotional_change |-> 0, comment |-> "none",
   extra |-> FALSE]

\* the validation with the ge/le bounds of emotional_change left out
CharacterResponseUnbounded(reply) == ~reply.extra

\* CharacterResponse(**data): extra="forbid", ge=-50, le=50
CharacterResponseValid(reply) ==
  /\ ~reply.extra
  /\ reply.emotional_change >= MinDelta
  /\ reply.emotional_change <= MaxDelta

\* generate_character_response: ok is FALSE when it raises "LLM error"
generate_character_response(reply) ==
  IF reply.kind = "json" /\ CharacterResponseValid(reply)
  THEN [ok |-> TRUE, emotional_change |-> reply.emotional_change,
        comment |-> reply.comment]
  ELSE [ok |-> FALSE, emotional_change |-> 0, comment |-> "none"]

----------------------------------------------------------------------------
(* Serialization of a Conversation: model_dump, _prepare_for_serialization, *)
(* json.dumps on the way in; json.loads, datetime.fromisoformat and the    *)
(* Conversation constructor on the way out.  A datetime is an aware UTC     *)
(* time of microsecond resolution; an ISO string is the sequence of its     *)
(* parts.                                                                   *)

\* a Redis key that holds nothing
Nil == [nil |-> TRUE]

\* None, as returned by a lookup
None == [none |-> TRUE]

\* the instants of the model: one on a whole second, one not
Times == {[second |-> 0, microsecond |-> 0],
          [second |-> 1, microsecond |-> 250]}

\* an ISO format that stops at the seconds
isoformat_seconds(d) == <<d.second>>

\* datetime.isoformat(): the microseconds are written only when not zero
isoformat(d) ==
  IF d.microsecond = 0 THEN <<d.second>> ELSE <<d.second, d.microsecond>>

\* datetime.fromisoformat(): absent microseconds read as zero
fromisoformat(s) ==
  [second |-> s[1], microsecond |-> IF Len(s) = 1 THEN 0 ELSE s[2]]

\* a member of the enum MessageRole, and the member a value names
MessageRole(value) == [enum |-> "MessageRole", value |-> value]

\* Message(id, role, content, timestamp) as the API layer holds it
StoredMessage(id, role, content, timestamp) ==
  [id |-> id, role |-> MessageRole(role), content |-> content,
   timestamp |-> timestamp]

\* convert_datetime on one message dict, then its JSON object: the
\* timestamp becomes its ISO string, the str-enum role its value
dump_message(m) ==
  [id |-> m.id, role |-> m.role.value, content |-> m.content,
   timestamp |-> isoformat(m.timestamp)]

\* _prepare_for_serialization and json.dumps of conversation.model_dump()
dumps(c) ==
  [id |-> c.id, title |-> c.title,
   messages |-> [i \in 1..Len(c.messages) |-> dump_message(c.messages[i])],
   created_at |-> isoformat(c.created_at),
   updated_at |-> isoformat(c.updated_at),
   character_id |-> c.character_id, emotional_state |-> c.emotional_state]

\* json.loads, the fromisoformat calls of llm.get_conversation, and
\* Conversation(**data), which turns each role string into its enum member
loads(d) ==
  [id |-> d.id, title |-> d.title,
   messages |-> [i \in 1..Len(d.messages) |->
                   [id |-> d.messages[i].id,
                    role |-> MessageRole(d.messages[i].role),
                    content |-> d.messages[i].content,
                    timestamp |-> fromisoformat(d.messages[i].timestamp)]],
   created_at |-> fromisoformat(d.created_at),
   updated_at |-> fromisoformat(d.updated_at),
   character_id |-> d.character_id, emotional_state |-> d.emotional_state]

\* transcripts handed to save_conversation
Transcripts ==
  {<<>>,
   <<StoredMessage("m1", "user", "hello",
                   [second |-> 1, microsecond |-> 250])>>,
   <<StoredMessage("m1", "user", "hello",
                   [second |-> 0, microsecond |-> 0]),
     StoredMessage("m2", "assistant", "hi",
                   [second |-> 1, microsecond |-> 250])>>}

\* conversations handed to save_conversation
StoredConversations ==
  [id : ConvIds, title : {NoTitle, <<"Zombie Therapy", "hello">>},
   messages : Transcripts, created_at : Times,
   updated_at : {[second |-> 0, microsecond |-> 0]},
   character_id : Chars, emotional_state : {InitialScore}]

\* a Python call ends by returning a value or by raising
Returned(v) == [raised |-> FALSE, value |-> v]
Raised == [raised |-> TRUE, value |-> "Exception"]

\* a method body with no handler around it
TryNoExcept(outcome, failure) == outcome

\* try: <body> except Exception: return <failure>
TryExcept(outcome, failure) ==
  IF outcome.raised THEN Returned(failure) ELSE outcome

\* the ids uuid4 hands to the conversations of the in-process map
MemIds == {"k1", "k2"}

\* no call has been made on the store layer yet
NoCall ==
  [method |-> "none", arg |-> "none", point |-> "ok", at |-> 0,
   out |-> Returned(None), loaded |-> None, written |-> None,
   reads |-> 0]

\* the record of one call: its method, argument, failure point and outcome
Call(method, arg, point, out) ==
  [NoCall EXCEPT !.method = method, !.arg = arg, !.point = point,
                 !.out = out]

----------------------------------------------------------------------------
(* State *)

VARIABLES
  conversations,  \* Redis keys conversation:<id> -> record, or NoRecord
  characters,     \* ids that have a Redis key character:<id>
  charList,       \* members of the Redis set characters:list
  req,            \* per request slot: the handler's position and locals
  turns,          \* requests issued so far
  faults,         \* store failures injected so far
  redis,          \* Redis strings conversation:<id> as written, or Nil
  last,           \* the last call made on the store layer and its outcome
  memory          \* the in-process map `conversations` of routes/chat.py

vars ==
  <<conversations, characters, charList, req, turns, faults, redis, last,
    memory>>

\* no gateway call made
NoArgs == [messages |-> <<>>, current_emotional_state |-> -1]

\* a gateway call that is handed the transcript without its last message
GatewayRequestWithoutLast(conversation) ==
  [messages |-> SubSeq(conversation.messages, 1,
                       Len(conversation.messages) - 1),
   current_emotional_state |-> conversation.emotional_state]

\* generate_character_response(messages=conversation.messages, ...,
\* current_emotional_state=conversation.emotional_state): every message
\* is mapped to its role and content, none is left out
GatewayRequest(conversation) ==
  [messages |-> conversation.messages,
   current_emotional_state |-> conversation.emotional_state]

\* a request slot with no handler running
IdleReq ==
  [op |-> "none", pc |-> "idle", character_id |-> "none",
   conversation_id |-> "none", audio |-> "none", transcription |-> "",
   conversation |-> NoRecord, character_response |-> NoResponse,
   gwArgs |-> NoArgs, result |-> NoResult,
   \* history of the call, read only by the properties
   old |-> -1, snap |-> NoRecord, peers |-> 0, startedAlone |-> TRUE,
   created |-> FALSE, charMissing |-> FALSE, convMissing |-> FALSE,
   gwCalls |-> 0, writes |-> 0, saved |-> FALSE, gwFailed |-> FALSE,
   readFault |-> FALSE, reply |-> NoReply]

Init ==
  /\ conversations = [c \in ConvIds |-> NoRecord]
  /\ characters = {}
  /\ charList = {}
  /\ req = [r \in Reqs |-> IdleReq]
  /\ turns = 0
  /\ faults = 0
  /\ redis = [c \in ConvIds |-> Nil]
  /\ last = NoCall
  /\ memory = [k \in MemIds |-> None]

InFlight(r) == req[r].pc \notin {"idle", "done"}

\* outcomes of one Redis call: it works, or (within the budget) it raises
Outcomes == IF faults < MaxFaults THEN {TRUE, FALSE} ELSE {TRUE}

Fault(ok) == faults' = IF ok THEN faults ELSE faults + 1

\* the handler has returned: its locals are gone, the response stays
Return(rq, result) ==
  [rq EXCEPT !.pc = "done", !.result = result,
             !.audio = "none", !.transcription = "",
             !.conversation = NoRecord,
             !.character_response = NoResponse,
             !.gwArgs = NoArgs]

\* raise HTTPException(status_code, detail)
Raise(rq, status, detail) ==
  Return(rq, [NoResult EXCEPT !.status = status, !.detail = detail])

\* slots are interchangeable: a call takes the first free one
SlotBefore(q, r) == q = "r1" /\ r = "r2"

\* a handler starts in slot r: the other in-flight calls now overlap it
Arrive(r, rq) ==
  /\ ~InFlight(r)
  /\ \A q \in Reqs : InFlight(q) \/ ~SlotBefore(q, r)
  /\ turns < MaxTurns
  /\ turns' = turns + 1
  /\ LET others == {q \in Reqs \ {r} : InFlight(q)}
         me == [rq EXCEPT !.peers = Cardinality(others),
                          !.startedAlone = (others = {})]
     IN req' = [q \in Reqs |->
                  IF q = r THEN me
                  ELSE IF q \in others
                       THEN [req[q] EXCEPT !.peers = @ + 1]
                       ELSE req[q]]

----------------------------------------------------------------------------
(* Conversation helpers of app/core/llm.py *)

\* a read that never finds the record
get_conversation_never_found(store, id, ok) == NoRecord

\* get_conversation: the Conversation built from the stored record, or None
get_conversation(store, id, ok) == redis_get_conversation(store, id, ok)

\* a save that writes the transcript without its last message
save_conversation_without_reply(store, conversation, ok) ==
  redis_save_conversation(
    store, conversation.id,
    [conversation EXCEPT !.messages = SubSeq(@, 1, Len(@) - 1)], ok)

\* save_conversation: model_dump and write under conversation.id; the
\* boolean it returns is ok
save_conversation(store, conversation, ok) ==
  redis_save_conversation(store, conversation.id, conversation, ok)

----------------------------------------------------------------------------
(* POST /zombie: zombie_interaction *)

\* the call arrives and runs Step 1, get_character_context_from_redis
zombie_get_character(r, c) ==
  \E ok \in Outcomes :
    LET rq0 == [IdleReq EXCEPT !.op = "zombie", !.character_id = c,
                               !.conversation_id = c,
                               !.snap = conversations[c],
                               !.charMissing = (c \notin characters)]
        rq == IF get_character_context_from_redis(characters, c, ok)
              THEN [rq0 EXCEPT !.pc = "z_conv"]
              ELSE Raise(rq0, 404, "Character not found")
    IN /\ Arrive(r, rq)
       /\ Fault(ok)
       /\ UNCHANGED <<memory, redis, last, conversations, characters, charList>>

\* Step 2, first half: get_conversation(request.character_id)
zombie_get_conversation(r) ==
  /\ req[r].pc = "z_conv"
  /\ \E ok \in Outcomes :
       LET rq == req[r]
           data == get_conversation(conversations, rq.character_id, ok)
       IN /\ req' = [req EXCEPT ![r] =
                       IF data = NoRecord
                       THEN [rq EXCEPT !.pc = "z_create",
                                       !.created = TRUE,
                                       !.readFault = ~ok,
                                       !.conversation =
                                          Conversation(rq.character_id,
                                                       rq.character_id)]
                       ELSE IF ~ValidScore(data.emotional_state)
                       THEN Raise(rq, 500, "Error handling conversation")
                       ELSE [rq EXCEPT !.pc = "z_input",
                                       !.conversation = data]]
          /\ Fault(ok)
  /\ UNCHANGED <<memory, redis, last, conversations, characters, charList,
                 turns>>

\* Step 2, second half: save_conversation of the new conversation; the
\* boolean it returns is dropped
zombie_create_conversation(r) ==
  /\ req[r].pc = "z_create"
  /\ \E ok \in Outcomes :
       /\ conversations' =
            save_conversation(conversations, req[r].conversation, ok)
       /\ req' = [req EXCEPT ![r].pc = "z_input",
                             ![r].writes = IF ok THEN @ + 1 ELSE @]
       /\ Fault(ok)
  /\ UNCHANGED <<memory, redis, last, characters, charList, turns>>

\* Step 3: the audio file is checked, read and transcribed and the user
\* message appended, or the system message of the opening is appended.
\* request.audio_file_path is first read here, so the request's audio is
\* drawn here
zombie_input(r) ==
  /\ req[r].pc = "z_input"
  /\ \E a \in Audio :
       LET rq == [req[r] EXCEPT !.audio = a]
           t == Transcribe(a)
           append(m) == [rq EXCEPT !.pc = "z_llm",
                                   !.transcription = t,
                                   !.conversation.messages = Append(@, m)]
       IN req' = [req EXCEPT ![r] =
            CASE a = "none" ->
                   append(Message("system", InitialPrompt))
              [] a = "missing" ->
                   Raise(rq, 404, "Audio file not found")
              [] a = "unreadable" ->
                   Raise(rq, 500, "Error reading audio file")
              [] a = "stt_error" ->
                   Raise(rq, 500, "Error transcribing audio")
              [] a = "silent" ->
                   Raise(rq, 400, "No speech detected in audio file")
              [] OTHER -> append(Message("user", t))]
  /\ UNCHANGED <<memory, redis, last, conversations, characters, charList,
                 turns, faults>>

\* the exception generate_character_response raises for a reply it cannot
\* return: `raise Exception(f"LLM error: {str(e)}")`, whatever was caught;
\* only the text of the caught exception tells the causes apart
LLMError(reply) ==
  [class |-> "Exception",
   message |-> <<"LLM error", IF reply.kind = "transport_error"
                              THEN "transport" ELSE "validation">>]

\* a failed gateway call that is issued again instead of being reported
GatewayFailedRetry(rq) == [rq EXCEPT !.gwFailed = TRUE]

\* except Exception as e: raise HTTPException(status_code=500, ...)
GatewayFailed(rq) ==
  [Raise(rq, 500, "Error generating character response")
     EXCEPT !.gwFailed = TRUE]

\* Steps 4 and 5: generate_character_response answers or raises; on an
\* answer the assistant message is appended, the score updated and clamped
\* and the title set if there is none
zombie_generate(r) ==
  /\ req[r].pc = "z_llm"
  /\ \E reply \in RawReplies :
       LET rq == [req[r] EXCEPT !.gwCalls = @ + 1, !.reply = reply,
                                !.gwArgs = GatewayRequest(req[r].conversation)]
           character_response == generate_character_response(reply)
           conv == rq.conversation
           new_emotional_state ==
             conv.emotional_state + character_response.emotional_change
       IN req' = [req EXCEPT ![r] =
            IF ~character_response.ok
            THEN GatewayFailed(rq)
            ELSE [rq EXCEPT
                    !.pc = "z_save",
                    !.old = conv.emotional_state,
                    !.character_response =
                       [emotional_change |->
                          character_response.emotional_change,
                        comment |-> character_response.comment],
                    !.conversation =
                       [conv EXCEPT
                          !.messages =
                             Append(@, Message("assistant",
                                               character_response.comment)),
                          !.emotional_state = Clamp(new_emotional_state),
                          !.title =
                             IF @ = NoTitle
                             THEN ZombieTitle(rq.audio, rq.transcription)
                             ELSE @]]]
  /\ UNCHANGED <<memory, redis, last, conversations, characters, charList,
                 turns, faults>>

\* Steps 6 and 7: save_conversation (its boolean is dropped, and it never
\* raises), then session_ended is computed and the response returned
zombie_save(r) ==
  /\ req[r].pc = "z_save"
  /\ \E ok \in Outcomes :
       LET rq == req[r]
           conv == rq.conversation
       IN /\ conversations' = save_conversation(conversations, conv, ok)
          /\ req' = [req EXCEPT ![r] =
               Return([rq EXCEPT !.saved = ok,
                                 !.writes = IF ok THEN @ + 1 ELSE @],
                      [status |-> 200, detail |-> "ok",
                       transcription |-> rq.transcription,
                       character_response |-> rq.character_response.comment,
                       emotional_change |->
                          rq.character_response.emotional_change,
                       emotional_state |-> conv.emotional_state,
                       session_ended |-> SessionEnded(conv.emotional_state)])]
          /\ Fault(ok)
  /\ UNCHANGED <<memory, redis, last, characters, charList, turns>>

----------------------------------------------------------------------------
(* Legacy chat handlers: app/api/routes/legacy_chat.py *)

\* get_character_context_from_redis of legacy_chat.py: 404 when no record
\* is read; otherwise it reads character_data["problems"] and builds
\* llm.CharacterContext without its required fields gender and problem, so
\* it raises (KeyError or ValidationError) and the request ends in a 500
legacy_get_character_context_from_redis(chars, id, ok) ==
  IF redis_get_character(chars, id, ok) THEN 500 ELSE 404

LegacyContextDetail(status) ==
  IF status = 404 THEN "Character not found" ELSE "Internal Server Error"

\* POST /legacy/chat/conversations: the call arrives and awaits
\* get_character_context_from_redis, which always raises
legacy_start_conversation(r, c, cid) ==
  \E ok \in Outcomes :
    LET rq0 == [IdleReq EXCEPT !.op = "legacy_start", !.character_id = c,
                               !.conversation_id = cid,
                               !.snap = IF cid \in ConvIds
                                        THEN conversations[cid]
                                        ELSE NoRecord,
                               !.convMissing =
                                  (cid \in ConvIds
                                   /\ conversations[cid] = NoRecord),
                               !.charMissing = (c \notin characters)]
        status == legacy_get_character_context_from_redis(characters, c, ok)
    IN /\ Arrive(r, Raise(rq0, status, LegacyContextDetail(status)))
       /\ Fault(ok)
       /\ UNCHANGED <<memory, redis, last, conversations, characters, charList>>

\* POST /legacy/chat/conversations/{id}/messages: the call arrives and
\* awaits get_conversation
legacy_add_message_get_conversation(r, cid, c) ==
  \E ok \in Outcomes :
    LET rq0 == [IdleReq EXCEPT !.op = "legacy_add", !.character_id = c,
                               !.conversation_id = cid,
                               !.snap = conversations[cid],
                               !.convMissing = (conversations[cid] = NoRecord)]
        data == get_conversation(conversations, cid, ok)
        rq == IF data = NoRecord
              THEN Raise(rq0, 404, "Conversation not found")
              ELSE [rq0 EXCEPT !.pc = "la_char", !.conversation = data]
    IN /\ Arrive(r, rq)
       /\ Fault(ok)
       /\ UNCHANGED <<memory, redis, last, conversations, characters, charList>>

\* ... then get_character_context_from_redis, which always raises
legacy_add_message_get_character(r) ==
  /\ req[r].pc = "la_char"
  /\ \E ok \in Outcomes :
       LET rq == [req[r] EXCEPT
                    !.charMissing = (req[r].character_id \notin characters)]
           status == legacy_get_character_context_from_redis(
                        characters, rq.character_id, ok)
       IN /\ req' = [req EXCEPT ![r] =
                       Raise(rq, status, LegacyContextDetail(status))]
          /\ Fault(ok)
  /\ UNCHANGED <<memory, redis, last, conversations, characters, charList,
                 turns>>

----------------------------------------------------------------------------
(* Character records: RedisClient.save_character / delete_character *)

\* how far a two-command store method gets: both commands work, the
\* first raises, or the second raises after the first took effect
Progress == IF faults < MaxFaults THEN {"ok", "first_raises", "second_raises"}
            ELSE {"ok"}

\* save_character for a newly generated character (its id is a new uuid):
\* SET, then SADD when the SET succeeded; an exception in either is caught
\* and False returned
save_character(c) ==
  /\ c \notin characters
  /\ \E p \in Progress :
       /\ characters' = IF p = "first_raises" THEN characters
                        ELSE characters \cup {c}
       /\ charList' = IF p = "ok" THEN charList \cup {c} ELSE charList
       /\ Fault(p = "ok")
  /\ UNCHANGED <<memory, redis, last, conversations, req, turns>>

\* a delete that also removes the conversation stored under the character
delete_character_cascading(c) ==
  /\ \E p \in Progress :
       /\ characters' = IF p = "first_raises" THEN characters
                        ELSE characters \ {c}
       /\ charList' = IF p = "ok" /\ c \in characters
                      THEN charList \ {c} ELSE charList
       /\ Fault(p = "ok")
  /\ conversations' = [conversations EXCEPT ![c] = NoRecord]
  /\ UNCHANGED <<memory, redis, last, req, turns>>

\* delete_character: DEL, then SREM when a key was deleted; an exception in
\* either is caught and False returned
delete_character(c) ==
  /\ \E p \in Progress :
       /\ characters' = IF p = "first_raises" THEN characters
                        ELSE characters \ {c}
       /\ charList' = IF p = "ok" /\ c \in characters
                      THEN charList \ {c} ELSE charList
       /\ Fault(p = "ok")
  /\ UNCHANGED <<memory, redis, last, conversations, req, turns>>

----------------------------------------------------------------------------
(* Deletion of conversations: DELETE /legacy/chat/conversations/{id} and   *)
(* DELETE /legacy/chat/cleanup of legacy_chat.py                           *)

\* delete_conversation_endpoint: the call arrives and awaits
\* get_conversation; 404 when it returns None
delete_conversation_endpoint_get(r, cid) ==
  \E ok \in Outcomes :
    LET rq0 == [IdleReq EXCEPT !.op = "legacy_delete",
                               !.conversation_id = cid,
                               !.snap = conversations[cid],
                               !.convMissing = (conversations[cid] = NoRecord)]
        data == get_conversation(conversations, cid, ok)
        rq == IF data = NoRecord
              THEN Raise(rq0, 404, "Conversation not found")
              ELSE [rq0 EXCEPT !.pc = "ld_delete"]
    IN /\ Arrive(r, rq)
       /\ Fault(ok)
       /\ UNCHANGED <<memory, redis, last, conversations, characters, charList>>

\* ... then delete_conversation: bool(DEL key), False when the call raises;
\* 500 when it is False
delete_conversation_endpoint_delete(r) ==
  /\ req[r].pc = "ld_delete"
  /\ \E ok \in Outcomes :
       LET cid == req[r].conversation_id
           success == ok /\ conversations[cid] # NoRecord
       IN /\ conversations' = IF ok
                              THEN [conversations EXCEPT ![cid] = NoRecord]
                              ELSE conversations
          /\ req' = [req EXCEPT ![r] =
               IF success
               THEN Return([req[r] EXCEPT !.writes = @ + 1],
                           [NoResult EXCEPT !.status = 200,
                                            !.detail = "deleted"])
               ELSE Raise(req[r], 500, "Failed to delete conversation")]
          /\ Fault(ok)
  /\ UNCHANGED <<memory, redis, last, characters, charList, turns>>

\* KEYS *: the conversation keys (held in `conversations` by the handlers
\* and in `redis` by the store layer), the character keys, and the key of
\* the set characters:list, which exists while the set has a member
AllKeys ==
  {<<"conversation:", c>> : c \in {c \in DOMAIN conversations :
                                     conversations[c] # NoRecord}}
    \cup {<<"conversation:", k>> : k \in {k \in DOMAIN redis :
                                           redis[k] # Nil}}
    \cup {<<"character:", c>> : c \in characters}
    \cup (IF charList = {} THEN {} ELSE {<<"characters:list">>})

\* the response of cleanup_all_data
CleanupResponse(ok, deleted_count) ==
  IF ok
  THEN [status |-> 200, detail |-> "ok",
        body |-> [deleted_count |-> deleted_count]]
  ELSE [status |-> 500, detail |-> "Cleanup failed", body |-> None]

\* a cleanup that deletes the keys conversation:* only
cleanup_conversations_only ==
  /\ \E ok \in Outcomes :
       LET all_keys == {k \in AllKeys : k[1] = "conversation:"}
       IN /\ conversations' = IF ok THEN [c \in DOMAIN conversations |->
                                            NoRecord]
                              ELSE conversations
          /\ redis' = IF ok THEN [k \in DOMAIN redis |-> Nil] ELSE redis
          /\ UNCHANGED <<characters, charList>>
          /\ last' = Call("cleanup_all_data", "none",
                          IF ok THEN "ok" ELSE "keys",
                          Returned(CleanupResponse(ok,
                                                   Cardinality(all_keys))))
          /\ Fault(ok)
  /\ UNCHANGED <<memory, req, turns>>

\* cleanup_all_data: KEYS * and one DEL of all the keys found, whose count
\* of deleted keys is returned (0, without a DEL, when there are no keys);
\* when a store call raises, nothing is deleted and the call ends in 500
cleanup_all_data ==
  /\ \E ok \in Outcomes :
       LET all_keys == AllKeys
       IN /\ conversations' = IF ok THEN [c \in DOMAIN conversations |->
                                            NoRecord]
                              ELSE conversations
          /\ redis' = IF ok THEN [k \in DOMAIN redis |-> Nil] ELSE redis
          /\ characters' = IF ok THEN {} ELSE characters
          /\ charList' = IF ok THEN {} ELSE charList
          /\ last' = Call("cleanup_all_data", "none",
                          IF ok THEN "ok" ELSE "keys",
                          Returned(CleanupResponse(ok,
                                                   Cardinality(all_keys))))
          /\ Fault(ok)
  /\ UNCHANGED <<memory, req, turns>>

----------------------------------------------------------------------------
(* The store layer on its own: the methods of RedisClient, the conversation *)
(* helpers of app/core/llm.py that serialize through them, and the batch    *)
(* save of generate_characters_from_theme.  `point` names the statement of  *)
(* the method body at which an exception is raised, "ok" when none is.      *)

\* the ids uuid4 hands to the characters of one generated batch, in order
Batch == <<"g1", "g2">>
GenIds == {Batch[i] : i \in 1..Len(Batch)}

\* a character record as stored under character:<id>
CharacterData(c) == [id |-> c]

Points(ps) == IF faults < MaxFaults THEN {"ok"} \cup ps ELSE {"ok"}

\* what the body of a method does when the exception is raised at `point`
Body(point, value) == IF point = "ok" THEN Returned(value) ELSE Raised

\* llm.save_conversation: updated_at = now, model_dump, then
\* RedisClient.save_conversation: serialize and SET
SaveConversation(conversation, now) ==
  /\ \E point \in Points({"dumps", "set"}) :
       LET written == [conversation EXCEPT !.updated_at = now]
           out == TryExcept(Body(point, TRUE), FALSE)
       IN /\ redis' = IF point = "ok"
                      THEN [redis EXCEPT ![written.id] = dumps(written)]
                      ELSE redis
          /\ last' = [Call("save_conversation", written.id, point, out)
                        EXCEPT !.written = IF point = "ok" THEN written
                                           ELSE None]
          /\ Fault(point = "ok")
  /\ UNCHANGED <<memory, conversations, characters, charList, req, turns>>

\* llm.get_conversation: RedisClient.get_conversation (GET, json.loads),
\* then the timestamps are parsed and the Conversation rebuilt
GetConversation(id) ==
  /\ \E point \in Points({"get"}) :
       LET found == IF redis[id] = Nil THEN None ELSE redis[id]
           out == TryExcept(Body(point, found), None)
       IN /\ last' = [Call("get_conversation", id, point, out)
                        EXCEPT !.loaded = IF out.raised THEN None
                                          ELSE IF out.value = None THEN None
                                          ELSE loads(out.value)]
          /\ Fault(point = "ok")
  /\ UNCHANGED <<memory, conversations, characters, charList, req, turns,
                 redis>>

\* RedisClient.delete_conversation: bool(DEL key)
DeleteConversation(id) ==
  /\ \E point \in Points({"delete"}) :
       /\ redis' = IF point = "ok" THEN [redis EXCEPT ![id] = Nil] ELSE redis
       /\ last' = Call("delete_conversation", id, point,
                       TryExcept(Body(point, redis[id] # Nil), FALSE))
       /\ Fault(point = "ok")
  /\ UNCHANGED <<memory, conversations, characters, charList, req, turns>>

\* RedisClient.get_all_conversation_keys: KEYS conversation:*, in no order
GetAllConversationKeys ==
  /\ \E point \in Points({"keys"}) :
       /\ last' = Call("get_all_conversation_keys", "none", point,
                       TryExcept(Body(point, {c \in ConvIds : redis[c] # Nil}),
                                 {}))
       /\ Fault(point = "ok")
  /\ UNCHANGED <<memory, conversations, characters, charList, req, turns,
                 redis>>

\* the body of RedisClient.save_character inside its try/except: serialize,
\* SET, and SADD when the SET succeeded
save_character_body(chars, list, c, point) ==
  [characters |-> IF point \in {"dumps", "set"} THEN chars
                  ELSE chars \cup {c},
   charList |-> IF point = "ok" THEN list \cup {c} ELSE list,
   out |-> TryExcept(Body(point, TRUE), FALSE)]

\* RedisClient.save_character
SaveCharacter(c) ==
  /\ \E point \in Points({"dumps", "set", "sadd"}) :
       LET step == save_character_body(characters, charList, c, point)
       IN /\ characters' = step.characters
          /\ charList' = step.charList
          /\ last' = Call("save_character", c, point, step.out)
          /\ Fault(point = "ok")
  /\ UNCHANGED <<memory, conversations, req, turns, redis>>

\* RedisClient.get_character: GET, json.loads
GetCharacter(c) ==
  /\ \E point \in Points({"get"}) :
       /\ last' = Call("get_character", c, point,
                       TryExcept(Body(point, IF c \in characters
                                             THEN CharacterData(c)
                                             ELSE None),
                                 None))
       /\ Fault(point = "ok")
  /\ UNCHANGED <<memory, conversations, characters, charList, req, turns,
                 redis>>

\* RedisClient.get_all_characters: SMEMBERS, then get_character for each
\* member; a member whose get_character returns None is left out, so a
\* failure inside one of those calls ("get", of member `skipped`) shortens
\* the list
GetAllCharacters ==
  /\ \E point \in Points({"smembers", "get"}), skipped \in GenIds :
       /\ point = "get" => skipped \in charList
       /\ point # "get" => skipped = Batch[1]
       /\ LET read == IF point = "get" THEN charList \ {skipped}
                      ELSE charList
              value == {CharacterData(c) : c \in read \cap characters}
          IN last' = Call("get_all_characters", "none", point,
                          TryExcept(IF point = "smembers" THEN Raised
                                    ELSE Returned(value), {}))
       /\ Fault(point = "ok")
  /\ UNCHANGED <<memory, conversations, characters, charList, req, turns,
                 redis>>

\* RedisClient.delete_character: DEL, and SREM when a key was deleted
DeleteCharacter(c) ==
  /\ \E point \in Points({"delete", "srem"}) :
       /\ characters' = IF point = "delete" THEN characters
                        ELSE characters \ {c}
       /\ charList' = IF point = "ok" /\ c \in characters
                      THEN charList \ {c} ELSE charList
       /\ last' = Call("delete_character", c, point,
                       TryExcept(Body(point, c \in characters), FALSE))
       /\ Fault(point = "ok")
  /\ UNCHANGED <<memory, conversations, req, turns, redis>>

\* save_character_generation_response: save the characters in order and
\* return False at the first save that does not succeed; the exception is
\* raised at `point` in the save of character number `at` (0: in none)
RECURSIVE save_character_generation_response(_, _, _, _, _)
save_character_generation_response(chars, list, k, at, point) ==
  IF k > Len(Batch)
  THEN [characters |-> chars, charList |-> list, out |-> Returned(TRUE)]
  ELSE LET step == save_character_body(chars, list, Batch[k],
                                       IF k = at THEN point ELSE "ok")
       IN IF ~step.out.raised /\ step.out.value
          THEN save_character_generation_response(
                 step.characters, step.charList, k + 1, at, point)
          ELSE [characters |-> step.characters, charList |-> step.charList,
                out |-> Returned(FALSE)]

\* generate_characters_from_theme once the batch has been generated and
\* given fresh ids: the batch is saved, the boolean of the save is dropped
\* and the whole batch is returned
generate_characters_from_theme ==
  /\ GenIds \cap (characters \cup charList) = {}
  /\ \E at \in 0..Len(Batch), point \in Points({"dumps", "set", "sadd"}) :
       /\ at = 0 <=> point = "ok"
       /\ LET saved == save_character_generation_response(
                         characters, charList, 1, at, point)
          IN /\ characters' = saved.characters
             /\ charList' = saved.charList
             /\ last' = [Call("generate_characters_from_theme", "none",
                              point, Returned(Batch)) EXCEPT !.at = at]
       /\ Fault(point = "ok")
  /\ UNCHANGED <<memory, conversations, req, turns, redis>>

\* the dict get_conversation_details returns: the conversation without
\* its emotional_state
ConversationDetails(conversation) ==
  [id |-> conversation.id, title |-> conversation.title,
   messages |-> conversation.messages,
   created_at |-> conversation.created_at,
   updated_at |-> conversation.updated_at,
   character_id |-> conversation.character_id]

\* the call record of one GET /legacy/chat/conversations/{id}: 404 when
\* get_conversation returns None, the details otherwise; `reads` counts
\* the reads of this id made in a row, up to two
DetailsCall(id, point) ==
  LET found == IF redis[id] = Nil THEN None ELSE redis[id]
      out == TryExcept(Body(point, found), None)
      conversation == IF out.raised THEN None
                      ELSE IF out.value = None THEN None
                      ELSE loads(out.value)
      response == IF conversation = None
                  THEN [status |-> 404, detail |-> "Conversation not found",
                        body |-> None]
                  ELSE [status |-> 200, detail |-> "ok",
                        body |-> ConversationDetails(conversation)]
  IN [Call("get_conversation_details", id, point, Returned(response))
        EXCEPT !.reads = IF last.method = "get_conversation_details"
                            /\ last.arg = id /\ last.reads >= 1
                         THEN 2 ELSE 1]

\* a read that removes the record it has read
get_conversation_details_consuming(id) ==
  /\ \E point \in Points({"get"}) :
       /\ last' = DetailsCall(id, point)
       /\ Fault(point = "ok")
  /\ redis' = [redis EXCEPT ![id] = Nil]
  /\ UNCHANGED <<memory, conversations, characters, charList, req, turns>>

\* get_conversation_details of legacy_chat.py: get_conversation, then 404
\* or the details; nothing is written
get_conversation_details(id) ==
  /\ \E point \in Points({"get"}) :
       /\ last' = DetailsCall(id, point)
       /\ Fault(point = "ok")
  /\ UNCHANGED <<memory, conversations, characters, charList, req, turns,
                 redis>>

\* the text the completion service returns for the opening statement
Opening == "opening"

\* the exceptions raised inside the two saves of one call: at most as many
\* as the budget leaves
SavePoints ==
  {ps \in {"ok", "dumps", "set"} \X {"ok", "dumps", "set"} :
     Cardinality({i \in 1..2 : ps[i] # "ok"}) <= MaxFaults - faults}

\* llm.start_character_session, called for a character and given the fresh
\* uuid `id` by Conversation(): create_new_conversation saves the empty
\* conversation, the completion service is asked for the opening text
\* (an exception there is re-raised), the assistant message is appended and
\* the conversation saved again; neither boolean of the saves is looked at
start_character_session(id, c) ==
  /\ redis[id] = Nil
  /\ \E ps \in SavePoints, now \in Times, answered \in BOOLEAN :
       LET empty == [id |-> id, title |-> NoTitle, messages |-> <<>>,
                     created_at |-> now, updated_at |-> now,
                     character_id |-> c, emotional_state |-> InitialScore]
           created == IF ps[1] = "ok"
                      THEN [redis EXCEPT ![id] = dumps(empty)] ELSE redis
           conversation ==
             [empty EXCEPT !.messages =
                <<StoredMessage("m1", "assistant", Opening, now)>>]
           saved == IF ps[2] = "ok"
                    THEN [created EXCEPT ![id] = dumps(conversation)]
                    ELSE created
       IN /\ ~answered => ps[2] = "ok"
          /\ redis' = IF answered THEN saved ELSE created
          /\ last' = Call("start_character_session", c,
                          IF ps[1] # "ok" THEN ps[1] ELSE ps[2],
                          IF answered
                          THEN Returned([conversation_id |-> id,
                                         initial_message |-> Opening])
                          ELSE Raised)
          /\ faults' = faults + Cardinality({i \in 1..2 : ps[i] # "ok"})
  /\ UNCHANGED <<memory, conversations, characters, charList, req, turns>>

\* the ids of the conversations of the listing's store
StoreIds == {"s1", "s2"}

\* conversations handed to save_conversation before a listing
ListedConversations ==
  [id : StoreIds, title : {NoTitle},
   messages : {t \in Transcripts : Len(t) # 1},
   created_at : {[second |-> 0, microsecond |-> 0]},
   updated_at : {[second |-> 0, microsecond |-> 0]},
   character_id : Chars, emotional_state : {InitialScore}]

\* the orders in which KEYS may return the keys S
Orders(S) ==
  {o \in [1..Cardinality(S) -> S] :
     \A i, j \in 1..Cardinality(S) : i # j => o[i] # o[j]}

\* datetimes compare by their instant
Instant(d) == d.second * 1000000 + d.microsecond

\* the dict list_conversations appends for a conversation it has loaded
Summary(conv) ==
  [id |-> conv.id, title |-> conv.title,
   message_count |-> Len(conv.messages),
   created_at |-> conv.created_at, updated_at |-> conv.updated_at,
   character_id |-> conv.character_id]

\* list.sort(key=updated_at) without reverse=True: oldest first
sort_by_updated_at(list) ==
  LET n == Len(list)
      p == CHOOSE p \in Orders(1..n) :
             \A i, j \in 1..n :
               i < j => \/ Instant(list[p[i]].updated_at)
                             < Instant(list[p[j]].updated_at)
                        \/ /\ list[p[i]].updated_at = list[p[j]].updated_at
                           /\ p[i] < p[j]
  IN [i \in 1..n |-> list[p[i]]]

\* conversation_list.sort(key=lambda x: x["updated_at"], reverse=True): a
\* stable sort, newest first, equal keys staying in the order of the list
sort_by_updated_at_reverse(list) ==
  LET n == Len(list)
      p == CHOOSE p \in Orders(1..n) :
             \A i, j \in 1..n :
               i < j => \/ Instant(list[p[i]].updated_at)
                             > Instant(list[p[j]].updated_at)
                        \/ /\ list[p[i]].updated_at = list[p[j]].updated_at
                           /\ p[i] < p[j]
  IN [i \in 1..n |-> list[p[i]]]

\* list_conversations of legacy_chat.py: get_all_conversation_ids (KEYS
\* conversation:*, [] when it raises), then get_conversation of each id in
\* the order of the keys, skipping those for which it returns None (the
\* ids in `failed`: their GET raises); the summaries are sorted and
\* returned with their number.  arg keeps the order of the keys, loaded the
\* ids that were loaded
list_conversations ==
  /\ \E keys_ok \in BOOLEAN, failed \in SUBSET DOMAIN redis :
       LET stored == {k \in DOMAIN redis : redis[k] # Nil}
           conversation_ids == IF keys_ok THEN stored ELSE {}
           raised == Cardinality(failed) + (IF keys_ok THEN 0 ELSE 1)
       IN /\ failed \subseteq conversation_ids
          /\ raised <= MaxFaults - faults
          /\ \E order \in Orders(conversation_ids) :
               LET read == SelectSeq(order, LAMBDA k : k \notin failed)
                   conversation_list ==
                     [i \in 1..Len(read) |-> Summary(loads(redis[read[i]]))]
                   sorted == sort_by_updated_at_reverse(conversation_list)
               IN last' = [Call("list_conversations", order,
                                IF ~keys_ok THEN "keys"
                                ELSE IF failed # {} THEN "get" ELSE "ok",
                                Returned([conversations |-> sorted,
                                          total |-> Len(sorted)]))
                             EXCEPT !.loaded = {read[i] : i \in 1..Len(read)}]
          /\ faults' = faults + raised
  /\ UNCHANGED <<memory, conversations, characters, charList, req, turns,
                 redis>>

----------------------------------------------------------------------------
(* The in-memory variant: app/api/routes/chat.py.  `conversations` is a     *)
(* dict of Conversation objects; get_conversation returns the stored        *)
(* object itself, so what a handler appends to conversation.messages is     *)
(* appended to the stored conversation at once.  The only await of a        *)
(* handler is the call of the completion service.                           *)

\* Conversation(character_id=...) of chat.py: it has no emotional_state
ChatConversation(id, character_id) ==
  [id |-> id, character_id |-> character_id, messages |-> <<>>,
   title |-> NoTitle]

\* get_conversation of chat.py: conversations.get(conversation_id)
chat_get_conversation(mem, id) == mem[id]

\* the id of the next Conversation()
FreshId == IF memory["k1"] = None THEN "k1" ELSE "k2"
HasFreshId == \E k \in MemIds : memory[k] = None

\* f"Therapy Session: {request.message[:30]}..."
ChatTitle(message) == <<"Therapy Session", message>>

\* the request of a chat handler that has appended the user message and
\* awaits the completion service; snap keeps the transcript before the call
ChatAwaiting(op, c, k, before) ==
  [IdleReq EXCEPT !.op = op, !.pc = "c_llm", !.character_id = c,
                  !.conversation_id = k,
                  !.snap = [NoRecord EXCEPT !.messages = before]]

\* start_character_session of chat.py: create_new_conversation stores the
\* empty conversation, then the opening text is awaited
chat_start_character_session(r, c) ==
  /\ HasFreshId
  /\ Arrive(r, [IdleReq EXCEPT !.op = "chat_session", !.pc = "cs_llm",
                               !.character_id = c,
                               !.conversation_id = FreshId])
  /\ memory' = [memory EXCEPT ![FreshId] = ChatConversation(FreshId, c)]
  /\ UNCHANGED <<conversations, characters, charList, faults, redis, last>>

\* ... the text arrives and the assistant message is appended and saved,
\* or the call raises and the handler ends in HTTPException 500
chat_session_answer(r) ==
  /\ req[r].pc = "cs_llm"
  /\ \E answered \in BOOLEAN :
       LET k == req[r].conversation_id
       IN /\ memory' =
               IF answered
               THEN [memory EXCEPT ![k].messages =
                       Append(@, Message("assistant", Opening))]
               ELSE memory
          /\ req' = [req EXCEPT ![r] =
               IF answered
               THEN Return(req[r], [NoResult EXCEPT
                                      !.status = 200, !.detail = "ok",
                                      !.character_response = Opening])
               ELSE [Raise(req[r], 500, "Failed to generate initial message")
                       EXCEPT !.gwFailed = TRUE]]
  /\ UNCHANGED <<conversations, characters, charList, turns, faults, redis,
                 last>>

\* POST /chat/conversations: the conversation named by the request is
\* looked up (404 when absent) or a new one is created and stored; the
\* user message is appended to it, then the gateway call is awaited
chat_start_conversation(r, cid, c) ==
  /\ cid = "none" => HasFreshId
  /\ LET k == IF cid = "none" THEN FreshId ELSE cid
         conversation == IF cid = "none" THEN ChatConversation(k, c)
                         ELSE chat_get_conversation(memory, k)
     IN IF conversation = None
        THEN /\ Arrive(r, Raise([IdleReq EXCEPT !.op = "chat_start",
                                                !.conversation_id = k,
                                                !.convMissing = TRUE],
                                404, "Conversation not found"))
             /\ UNCHANGED memory
        ELSE /\ Arrive(r, ChatAwaiting("chat_start", c, k,
                                       conversation.messages))
             /\ memory' = [memory EXCEPT ![k] =
                  [conversation EXCEPT !.messages =
                     Append(@, Message("user", "hello"))]]
  /\ UNCHANGED <<conversations, characters, charList, faults, redis, last>>

\* POST /chat/conversations/{id}/messages: the same for a conversation
\* that must exist
chat_add_message_to_conversation(r, k, c) ==
  /\ LET conversation == chat_get_conversation(memory, k)
     IN IF conversation = None
        THEN /\ Arrive(r, Raise([IdleReq EXCEPT !.op = "chat_add",
                                                !.conversation_id = k,
                                                !.convMissing = TRUE],
                                404, "Conversation not found"))
             /\ UNCHANGED memory
        ELSE /\ Arrive(r, ChatAwaiting("chat_add", c, k,
                                       conversation.messages))
             /\ memory' = [memory EXCEPT ![k].messages =
                             Append(@, Message("user", "hello"))]
  /\ UNCHANGED <<conversations, characters, charList, faults, redis, last>>

\* the gateway call of either handler ends: on a reply the assistant
\* message is appended, start_conversation sets the title when there is
\* none and the transcript has two messages, and the conversation is
\* saved; on a failure generate_character_response raises HTTPException 500
chat_answer(r) ==
  /\ req[r].pc = "c_llm"
  /\ \E answered \in BOOLEAN :
       LET k == req[r].conversation_id
           messages == Append(memory[k].messages, Message("assistant", "hi"))
           title == IF /\ req[r].op = "chat_start"
                       /\ memory[k].title = NoTitle
                       /\ Len(messages) = 2
                    THEN ChatTitle("hello") ELSE memory[k].title
       IN /\ memory' =
               IF answered
               THEN [memory EXCEPT ![k].messages = messages,
                                   ![k].title = title]
               ELSE memory
          /\ req' = [req EXCEPT ![r] =
               IF answered
               THEN Return([req[r] EXCEPT !.gwCalls = @ + 1],
                           [NoResult EXCEPT !.status = 200, !.detail = "ok",
                                            !.character_response = "hi"])
               ELSE [Raise([req[r] EXCEPT !.gwCalls = @ + 1],
                           500, "LLM error")
                       EXCEPT !.gwFailed = TRUE]]
  /\ UNCHANGED <<conversations, characters, charList, turns, faults, redis,
                 last>>

----------------------------------------------------------------------------
(* Specification *)

Next ==
  \/ \E r \in Reqs, c \in Chars : zombie_get_character(r, c)
  \/ \E r \in Reqs : zombie_get_conversation(r)
  \/ \E r \in Reqs : zombie_create_conversation(r)
  \/ \E r \in Reqs : zombie_input(r)
  \/ \E r \in Reqs : zombie_generate(r)
  \/ \E r \in Reqs : zombie_save(r)
  \/ \E r \in Reqs, c \in Chars, cid \in ConvIds \cup {"none"} :
       legacy_start_conversation(r, c, cid)
  \/ \E r \in Reqs, cid \in ConvIds, c \in Chars :
       legacy_add_message_get_conversation(r, cid, c)
  \/ \E r \in Reqs : legacy_add_message_get_character(r)
  \/ \E c \in Chars : save_character(c)
  \/ \E c \in Chars : delete_character(c)

Spec == Init /\ [][Next]_vars

\* The event loop resumes a handler whenever the store call or the local
\* file and transcription work it awaits has ended, and those end.  Nothing
\* in the code ends the await of llm_client.chat.completions.create: no
\* timeout is passed to the call (llm.py:401-414) or to the client
\* (config.py:47-49), so the step that takes the reply carries no fairness.
FairSpec ==
  /\ Spec
  /\ \A r \in Reqs :
       /\ WF_vars(zombie_get_conversation(r))
       /\ WF_vars(zombie_create_conversation(r))
       /\ WF_vars(zombie_input(r))
       /\ WF_vars(zombie_save(r))
       /\ WF_vars(legacy_add_message_get_character(r))

StoreNext ==
  \/ \E conversation \in StoredConversations, now \in Times :
       SaveConversation(conversation, now)
  \/ \E id \in ConvIds : GetConversation(id)
  \/ \E id \in ConvIds : DeleteConversation(id)
  \/ GetAllConversationKeys
  \/ \E c \in GenIds : SaveCharacter(c)
  \/ \E c \in GenIds : GetCharacter(c)
  \/ GetAllCharacters
  \/ \E c \in GenIds : DeleteCharacter(c)
  \/ generate_characters_from_theme
  \/ \E id \in ConvIds : get_conversation_details(id)
  \/ \E id \in ConvIds, c \in Chars : start_character_session(id, c)

\* the store layer driven directly, one call after another
StoreSpec == Init /\ [][StoreNext]_vars

\* a state of the store after one opening turn of every character: the
\* character is stored and its conversation holds the exchange
OpenedConversation(c) ==
  [Conversation(c, c) EXCEPT
     !.messages = <<Message("system", InitialPrompt),
                    Message("assistant", "hi")>>,
     !.emotional_state = Clamp(InitialScore + 5),
     !.title = ZombieTitle("none", "")]

RaceInit ==
  /\ conversations = [c \in ConvIds |-> OpenedConversation(c)]
  /\ characters = Chars
  /\ charList = Chars
  /\ req = [r \in Reqs |-> IdleReq]
  /\ turns = 0
  /\ faults = 0
  /\ redis = [c \in ConvIds |-> Nil]
  /\ last = NoCall
  /\ memory = [k \in MemIds |-> None]

RaceNext ==
  \/ \E r \in Reqs, c \in Chars : zombie_get_character(r, c)
  \/ \E r \in Reqs : zombie_get_conversation(r)
  \/ \E r \in Reqs : zombie_create_conversation(r)
  \/ \E r \in Reqs : zombie_input(r)
  \/ \E r \in Reqs : zombie_generate(r)
  \/ \E r \in Reqs : zombie_save(r)
  \/ \E r \in Reqs, cid \in ConvIds : delete_conversation_endpoint_get(r, cid)
  \/ \E r \in Reqs : delete_conversation_endpoint_delete(r)
  \/ cleanup_all_data

\* turns on stored conversations racing with their deletion
RaceSpec == RaceInit /\ [][RaceNext]_vars

MemNext ==
  \/ \E r \in Reqs, c \in Chars : chat_start_character_session(r, c)
  \/ \E r \in Reqs : chat_session_answer(r)
  \/ \E r \in Reqs, cid \in MemIds \cup {"none"}, c \in Chars :
       chat_start_conversation(r, cid, c)
  \/ \E r \in Reqs, k \in MemIds, c \in Chars :
       chat_add_message_to_conversation(r, k, c)
  \/ \E r \in Reqs : chat_answer(r)

\* the handlers of routes/chat.py over the in-process map
MemSpec == Init /\ [][MemNext]_vars

\* an empty store with room for the conversations of StoreIds
AdminInit ==
  /\ conversations = [c \in ConvIds |-> NoRecord]
  /\ characters = {}
  /\ charList = {}
  /\ req = [r \in Reqs |-> IdleReq]
  /\ turns = 0
  /\ faults = 0
  /\ redis = [k \in StoreIds |-> Nil]
  /\ last = NoCall
  /\ memory = [k \in MemIds |-> None]

AdminNext ==
  \/ \E conversation \in ListedConversations, now \in Times :
       SaveConversation(conversation, now)
  \/ \E c \in GenIds : SaveCharacter(c)
  \/ list_conversations
  \/ cleanup_all_data

\* the listing and the cleanup of legacy_chat.py called one after another
\* on a store that saves fill
AdminSpec == AdminInit /\ [][AdminNext]_vars

----------------------------------------------------------------------------
(* Properties *)

Done(r) == req[r].pc = "done"
Succeeded(r) == Done(r) /\ req[r].result.status = 200
Stored(c) == conversations[c] # NoRecord

\* the score a turn must leave: old + delta, brought back into 0..100
Expected(old, delta) ==
  IF old + delta < 0 THEN 0
  ELSE IF old + delta > 100 THEN 100 ELSE old + delta

\* C1: every persisted emotional_state and every emotional_state returned
\* by a turn lies in 0..100, whatever deltas in -50..50 the gateway gave
C1_ScoreInRange ==
  /\ \A c \in ConvIds :
       Stored(c) => conversations[c].emotional_state \in 0..100
  /\ \A r \in Reqs :
       Succeeded(r) => req[r].result.emotional_state \in 0..100

\* a turn whose old + delta left the range has returned and been persisted
C1_Witness ==
  \E r \in Reqs :
    /\ Succeeded(r)
    /\ req[r].saved
    /\ req[r].old + req[r].result.emotional_change > 100
    /\ conversations[req[r].conversation_id].emotional_state = 100

\* C2 (as claimed): two turns on one conversation that overlapped each
\* other only, both returned successfully with every store call working:
\* the persisted transcript holds the messages of both and the persisted
\* score is the result of one of the two serial orders
C2_NoLostUpdate ==
  \A r1, r2 \in Reqs :
    ( /\ r1 # r2
      /\ Succeeded(r1) /\ Succeeded(r2)
      /\ req[r1].conversation_id = req[r2].conversation_id
      /\ req[r1].startedAlone /\ req[r1].peers = 1 /\ req[r2].peers = 1
      /\ req[r1].saved /\ req[r2].saved
      /\ ~req[r1].readFault /\ ~req[r2].readFault )
    => LET c == req[r1].conversation_id
           base == IF req[r1].snap = NoRecord
                   THEN Conversation(c, c) ELSE req[r1].snap
           b == base.emotional_state
           d1 == req[r1].result.emotional_change
           d2 == req[r2].result.emotional_change
       IN /\ Stored(c)
          /\ Len(conversations[c].messages) = Len(base.messages) + 4
          /\ conversations[c].emotional_state \in
               {Expected(Expected(b, d1), d2), Expected(Expected(b, d2), d1)}

\* C3 (as claimed): a turn that no other call overlapped and whose gateway
\* call failed leaves the persisted record as it was before the call; only
\* a call that found no record may leave a freshly created one
C3_FailedTurnLeavesRecord ==
  \A r \in Reqs :
    (Done(r) /\ req[r].gwFailed /\ req[r].peers = 0)
    => LET c == req[r].conversation_id
       IN IF req[r].snap = NoRecord
          THEN conversations[c] \in {NoRecord, Conversation(c, c)}
          ELSE /\ Len(conversations[c].messages) = Len(req[r].snap.messages)
               /\ conversations[c].emotional_state
                    = req[r].snap.emotional_state
               /\ conversations[c].title = req[r].snap.title

\* C4 (as claimed): a turn returns a successful result only if the write of
\* the mutated conversation succeeded
C4_SuccessImpliesSaved ==
  \A r \in Reqs : Succeeded(r) => req[r].saved

\* C5 (as claimed): a turn on a conversation loaded with emotional_state 0
\* or 100 returns a score that is still 0 or 100 and session_ended = true
C5_TerminalIsFinal ==
  \A r \in Reqs :
    (Succeeded(r) /\ ~req[r].created /\ req[r].old \in {0, 100})
    => /\ req[r].result.emotional_state \in {0, 100}
       /\ req[r].result.session_ended

\* C6: a successful turn reports session_ended = true exactly when the
\* emotional_state it returns is 0 or 100
C6_SessionEndedIffBound ==
  \A r \in Reqs :
    Succeeded(r) =>
      /\ req[r].result.session_ended
           <=> req[r].result.emotional_state \in {0, 100}
      /\ req[r].result.emotional_state \in 1..99
           => ~req[r].result.session_ended

\* a turn has returned a score on a bound with session_ended, and another a
\* score inside the range without it
C6_Witness ==
  /\ \E r \in Reqs :
       /\ Succeeded(r)
       /\ req[r].result.emotional_state = 100
       /\ req[r].result.session_ended
  /\ \E r \in Reqs :
       /\ Succeeded(r)
       /\ req[r].result.emotional_state \in 1..99
       /\ ~req[r].result.session_ended

\* C7 (as claimed): after a successful turn that no other call overlapped,
\* the persisted emotional_state is clamp(old + delta)
C7_PersistedIsClampedSum ==
  \A r \in Reqs :
    (Succeeded(r) /\ req[r].peers = 0)
    => LET c == req[r].conversation_id
       IN /\ Stored(c)
          /\ conversations[c].emotional_state
               = Expected(req[r].old, req[r].result.emotional_change)

\* C8 (as claimed): a legacy turn on a conversation id without a record
\* ends in 404, with no gateway call and no store write
C8_UnknownConversationIs404 ==
  \A r \in Reqs :
    ( /\ Done(r)
      /\ req[r].op \in {"legacy_start", "legacy_add"}
      /\ req[r].convMissing )
    => /\ req[r].result.status = 404
       /\ req[r].gwCalls = 0
       /\ req[r].writes = 0

\* C9: a turn whose character id has no character record ends in 404 and
\* has made no gateway call and no store write
C9_MissingCharacterIs404 ==
  \A r \in Reqs :
    req[r].charMissing =>
      /\ Done(r)
      /\ req[r].result.status = 404
      /\ req[r].gwCalls = 0
      /\ req[r].writes = 0

\* a /zombie call has ended in 404 on a character whose record was deleted
\* after an earlier turn had stored a conversation for it
C9_Witness ==
  \E r \in Reqs :
    /\ req[r].charMissing
    /\ req[r].op = "zombie"
    /\ req[r].result.status = 404
    /\ Stored(req[r].conversation_id)
    /\ Len(conversations[req[r].conversation_id].messages) = 2

\* C10 (as claimed): once a /zombie turn that found no conversation, and
\* that no other call overlapped, has reached the gateway call, and after
\* that call has failed, the store holds the new conversation with
\* emotional_state 50 and no messages
C10_CreatedBeforeGateway ==
  \A r \in Reqs :
    ( /\ req[r].op = "zombie"
      /\ req[r].created /\ req[r].snap = NoRecord /\ req[r].peers = 0
      /\ (req[r].pc = "z_llm" \/ req[r].gwFailed) )
    => LET c == req[r].conversation_id
       IN /\ Stored(c)
          /\ conversations[c].emotional_state = 50
          /\ conversations[c].messages = <<>>

IsPrefix(s, t) == Len(s) <= Len(t) /\ SubSeq(t, 1, Len(s)) = s

\* no call has overlapped another and no store call has failed
SequentialAndReliable ==
  /\ faults = 0
  /\ \A r \in Reqs : req[r].peers = 0

\* C11: under sequential use with a store that works, every step leaves
\* each persisted transcript a prefix of its successor: messages are only
\* appended, never removed or reordered
C11_TranscriptGrowsByAppend ==
  [][ (SequentialAndReliable /\ SequentialAndReliable')
      => \A c \in ConvIds :
           Stored(c) =>
             /\ conversations'[c] # NoRecord
             /\ IsPrefix(conversations[c].messages,
                         conversations'[c].messages) ]_vars

\* two sequential turns have each appended their two messages
C11_Witness ==
  /\ SequentialAndReliable
  /\ \E c \in ConvIds :
       /\ Stored(c)
       /\ Len(conversations[c].messages) = 4
       /\ conversations[c].messages[3].role = "user"

\* C12 (as claimed): a turn that has called the gateway ends, with a
\* result or a failure, also when the completion service never answers
C12_TurnEnds ==
  \A r \in Reqs : (req[r].pc = "z_llm") ~> (req[r].pc = "done")

\* a reply that parses and satisfies the schema of CharacterResponse
SchemaSatisfied(reply) ==
  /\ reply.kind = "json"
  /\ ~reply.extra
  /\ reply.emotional_change \in -50..50
  /\ reply.comment \in Comments

Cause(reply) ==
  IF reply.kind = "transport_error" THEN "transport" ELSE "validation"

\* C14 (as claimed): a turn that failed on a transport/model error and a
\* turn that failed on a reply that does not validate differ in the kind
\* of failure the gateway raised and in the failure returned to the client
C14_FailureKindsDiffer ==
  \A r1, r2 \in Reqs :
    ( /\ req[r1].gwFailed /\ req[r2].gwFailed
      /\ Cause(req[r1].reply) # Cause(req[r2].reply) )
    => /\ LLMError(req[r1].reply).class # LLMError(req[r2].reply).class
       /\ req[r1].result.status # req[r2].result.status

C16_ListMatchesRecords == charList = characters

\* the store methods that answer with a boolean, and with an optional
BoolMethods ==
  {"save_conversation", "save_character", "delete_conversation",
   "delete_character"}
OptionalMethods == {"get_conversation", "get_character"}

\* the methods of RedisClient
RedisClientMethods ==
  BoolMethods \cup OptionalMethods
    \cup {"get_all_conversation_keys", "get_all_characters"}

C18_RoundTrip ==
  [][ ( /\ last.method = "save_conversation"
        /\ last.point = "ok"
        /\ last'.method = "get_conversation"
        /\ last'.point = "ok"
        /\ last'.arg = last.arg )
      => last'.loaded = last.written ]_vars

\* a conversation of two messages, with a timestamp that has microseconds
\* and one that has none, and with no title, has been loaded
C18_Witness ==
  /\ last.method = "get_conversation"
  /\ last.loaded # None
  /\ last.loaded.title = NoTitle
  /\ Len(last.loaded.messages) = 2
  /\ last.loaded.messages[1].timestamp.microsecond = 0
  /\ last.loaded.messages[2].timestamp.microsecond # 0
  /\ last.loaded.updated_at.microsecond # 0

\* C19 (as claimed): when the save of one character of the batch fails, the
\* characters before it stay stored, and what generate_characters_from_theme
\* returns differs from what it returns for a batch that was saved whole
C19_BatchFailureReported ==
  last.method = "generate_characters_from_theme" =>
    /\ \A k \in 1..Len(Batch) :
         (last.at = 0 \/ k < last.at) => Batch[k] \in characters
    /\ last.at # 0 => last.out # Returned(Batch)

\* C20: a step that removes a character record or list member changes no
\* conversation record, and a turn that finds its character missing ends
\* in 404 and leaves every conversation record as it was
C20_WeakReference ==
  [][ /\ ( \/ (characters' # characters /\ characters' \subseteq characters)
           \/ (charList' # charList /\ charList' \subseteq charList) )
         => conversations' = conversations
      /\ \A r \in Reqs :
           (req'[r] # req[r] /\ req'[r].charMissing)
           => /\ req'[r].result.status = 404
              /\ conversations' = conversations ]_vars

\* a character has been deleted, its conversation is still stored and
\* still names it, and a turn for it has ended in 404
C20_Witness ==
  \E c \in Chars :
    /\ c \notin characters
    /\ c \notin charList
    /\ Stored(c)
    /\ conversations[c].character_id = c
    /\ conversations[c].messages # <<>>
    /\ \E r \in Reqs :
         /\ req[r].character_id = c
         /\ req[r].charMissing
         /\ req[r].result.status = 404

\* C23: every persisted transcript is empty or ends with an assistant
\* message, after failed turns and under overlapping turns as well
C23_NoDanglingUserMessage ==
  \A c \in ConvIds :
    Stored(c) =>
      \/ conversations[c].messages = <<>>
      \/ conversations[c].messages[Len(conversations[c].messages)].role
           = "assistant"

\* a turn has failed at the gateway after appending its message, and the
\* stored transcript is the earlier exchange, ending with its reply
C23_Witness ==
  \E r \in Reqs :
    /\ req[r].gwFailed
    /\ req[r].op = "zombie"
    /\ Stored(req[r].conversation_id)
    /\ Len(conversations[req[r].conversation_id].messages) = 2
    /\ conversations[req[r].conversation_id].messages[2].role = "assistant"

\* no call overlaps another, now and after the step
Sequential == \A r \in Reqs : req[r].peers = 0

\* C25 (as claimed): when calls do not overlap, a stored conversation stays
\* stored and its transcript stays a prefix of the transcript stored next,
\* also when a store call of the turn fails
C25_NeverReplacedByFresh ==
  [][ (Sequential /\ Sequential')
      => \A c \in ConvIds :
           Stored(c) =>
             /\ conversations'[c] # NoRecord
             /\ IsPrefix(conversations[c].messages,
                         conversations'[c].messages) ]_vars

\* C27: the gateway is called with the whole transcript, the message this
\* turn appended being its last element, and with the score the
\* conversation had before this turn's delta: the stored score when a
\* record was loaded, the initial score when the conversation is new
C27_GatewaySeesPreTurnState ==
  \A r \in Reqs :
    req[r].pc = "z_save" =>
      LET sent == req[r].gwArgs
          conv == req[r].conversation
          n == Len(sent.messages)
      IN /\ n >= 1
         /\ conv.messages
              = Append(sent.messages,
                       Message("assistant",
                               req[r].character_response.comment))
         /\ sent.messages[n] =
              IF req[r].audio = "none"
              THEN Message("system", InitialPrompt)
              ELSE Message("user", req[r].transcription)
         /\ sent.current_emotional_state = req[r].old
         /\ req[r].created
              => /\ sent.current_emotional_state = InitialScore
                 /\ n = 1
         /\ (~req[r].created /\ req[r].peers = 0)
              => /\ sent.current_emotional_state
                      = req[r].snap.emotional_state
                 /\ SubSeq(sent.messages, 1, n - 1) = req[r].snap.messages

\* the gateway has answered a turn on a stored conversation whose score had
\* moved away from the initial one, the user's utterance being the third
\* message it was sent
C27_Witness ==
  \E r \in Reqs :
    /\ req[r].pc = "z_save"
    /\ ~req[r].created
    /\ req[r].audio = "speech"
    /\ Len(req[r].gwArgs.messages) = 3
    /\ req[r].gwArgs.current_emotional_state # InitialScore

\* C28 (as claimed): the step that ends a turn in success leaves the stored
\* transcript two messages longer, the turn's message followed by an
\* assistant message holding the comment returned to the caller
C28_SuccessAppendsTwo ==
  [][ \A r \in Reqs :
        (req[r].pc = "z_save" /\ req'[r].pc = "done"
           /\ req'[r].result.status = 200)
        => LET c == req[r].conversation_id
               before == IF Stored(c) THEN conversations[c].messages
                         ELSE <<>>
               after == conversations'[c].messages
           IN /\ conversations'[c] # NoRecord
              /\ Len(after) = Len(before) + 2
              /\ SubSeq(after, 1, Len(before)) = before
              /\ after[Len(after)] =
                   Message("assistant", req'[r].result.character_response)
              /\ req'[r].result.character_response = req[r].reply.comment
              /\ req'[r].result.emotional_change
                   = req[r].reply.emotional_change ]_vars

\* C21 (as claimed): when start_character_session has returned an id and
\* an opening text, the store holds under that id a conversation of the
\* given character whose transcript is one assistant message with that text
C21_SessionIsStored ==
  (last.method = "start_character_session" /\ ~last.out.raised) =>
    LET id == last.out.value.conversation_id
    IN /\ redis[id] # Nil
       /\ loads(redis[id]).character_id = last.arg
       /\ Len(loads(redis[id]).messages) = 1
       /\ loads(redis[id]).messages[1].role = MessageRole("assistant")
       /\ loads(redis[id]).messages[1].content
            = last.out.value.initial_message

\* C22: get_conversation_details changes no record, and two calls in a
\* row for the same id, neither hit by a store failure, return the same
C22_ReadIsIdempotent ==
  [][ last'.method = "get_conversation_details" =>
        /\ redis' = redis
        /\ conversations' = conversations
        /\ characters' = characters
        /\ charList' = charList
        /\ ( /\ last.method = "get_conversation_details"
             /\ last.arg = last'.arg
             /\ last.point = "ok"
             /\ last'.point = "ok" )
           => last'.out = last.out ]_vars

\* the details of a stored conversation of two messages have been returned
\* by the second of two reads in a row
C22_Witness ==
  /\ last.method = "get_conversation_details"
  /\ last.reads = 2
  /\ last.point = "ok"
  /\ last.out.value.status = 200
  /\ Len(last.out.value.body.messages) = 2

\* C29 (as claimed): save_character returns True only with the record and
\* the list membership both stored, and a call that returns False has
\* written no record
C29_SaveCharacterAllOrNothing ==
  [][ last'.method = "save_character" =>
        /\ last'.out.value
             => /\ last'.arg \in characters'
                /\ last'.arg \in charList'
        /\ ~last'.out.value => characters' = characters ]_vars

\* the store holds, for every character, the state RaceInit starts from
C26_StartReached ==
  /\ characters = Chars
  /\ charList = Chars
  /\ \A c \in ConvIds : conversations[c] = OpenedConversation(c)
  /\ \A r \in Reqs : ~InFlight(r)

\* C26 (as claimed): a turn that loaded a stored conversation, and ends
\* when the record has been deleted in the meantime, leaves no record
\* under the conversation id
C26_DeletedStaysDeleted ==
  [][ \A r \in Reqs :
        ( /\ req[r].pc = "z_save"
          /\ ~req[r].created
          /\ req'[r].pc = "done"
          /\ ~Stored(req[r].conversation_id) )
        => conversations'[req[r].conversation_id] = NoRecord ]_vars

\* C24 (as claimed): when the gateway call of start_conversation or
\* add_message_to_conversation fails, in a call no other call overlaps,
\* the conversation get_conversation returns has the messages it had
\* before the call
C24_FailureLeavesMessages ==
  [][ \A r \in Reqs :
        ( /\ req[r].pc = "c_llm"
          /\ req[r].peers = 0
          /\ req'[r].pc = "done"
          /\ req'[r].gwFailed )
        => chat_get_conversation(memory', req[r].conversation_id).messages
             = req[r].snap.messages ]_vars

\* C30 (as claimed): a successful exchange, in a call that no other call
\* overlaps, leaves the conversation with a title, and leaves a title that
\* was set as it was
C30_TitleSetOnce ==
  [][ \A r \in Reqs :
        ( /\ req[r].pc = "c_llm"
          /\ req[r].peers = 0
          /\ req'[r].pc = "done"
          /\ req'[r].result.status = 200 )
        => LET k == req[r].conversation_id
           IN /\ memory'[k].title # NoTitle
              /\ memory[k].title # NoTitle
                   => memory'[k].title = memory[k].title ]_vars

\* C31 (as claimed): a zombie_interaction call without audio, on a
\* character that had no conversation, with no store failure and no
\* overlapping call, returns the initial score, and the conversation it has
\* saved holds the initial score
C31_OpeningKeepsScore ==
  [][ \A r \in Reqs :
        ( /\ req[r].pc = "z_save"
          /\ req[r].audio = "none"
          /\ req[r].created
          /\ req[r].peers = 0
          /\ faults' = 0
          /\ req'[r].pc = "done"
          /\ req'[r].result.status = 200 )
        => /\ req'[r].result.emotional_state = InitialScore
           /\ conversations'[req[r].conversation_id].emotional_state
                = InitialScore ]_vars

\* C32 (as claimed): a stored conversation has the id of its character, and
\* a call that no other call overlaps, made for a character whose
\* conversation is stored, starts from the stored score
C32_OneConversationPerCharacter ==
  [][ /\ \A c \in ConvIds :
           conversations'[c] # NoRecord
             => /\ conversations'[c].id = c
                /\ conversations'[c].character_id = c
      /\ \A r \in Reqs :
           ( /\ req[r].pc = "z_llm"
             /\ req[r].peers = 0
             /\ req[r].snap # NoRecord
             /\ req'[r].pc = "z_save" )
           => /\ req'[r].conversation.id = req[r].character_id
              /\ req'[r].old = req[r].snap.emotional_state ]_vars

\* the failures of Step 3 the claim names, with the status of each
AudioFailures ==
  {<<"Audio file not found", 404>>, <<"Error reading audio file", 500>>,
   <<"No speech detected in audio file", 400>>}

\* C33 (as claimed): a call that no other call overlaps and that ends at
\* its audio file (missing, unreadable or without speech) has the status of
\* that failure, has not called the gateway, and leaves the persisted
\* conversation with the messages and the score it had when the call
\* arrived; when there was none, there is none or an empty one
C33_AudioFailureLeavesRecord ==
  [][ \A r \in Reqs :
        ( /\ req[r].pc = "z_input"
          /\ req[r].peers = 0
          /\ req'[r].pc = "done" )
        => LET c == req[r].conversation_id
               before == req[r].snap
               after == conversations'[c]
           IN ( \E f \in AudioFailures : req'[r].result.detail = f[1] )
              => /\ <<req'[r].result.detail, req'[r].result.status>>
                      \in AudioFailures
                 /\ req'[r].gwCalls = 0
                 /\ IF before = NoRecord
                    THEN after \in {NoRecord, Conversation(c, c)}
                    ELSE /\ after # NoRecord
                         /\ after.messages = before.messages
                         /\ after.emotional_state = before.emotional_state
    ]_vars

\* C34: when cleanup_all_data returns 200 and no request is in flight, the
\* store holds no conversation record, no character record and no member of
\* the character-id set, and deleted_count is the number of keys that
\* existed before the call
C34_CleanupEmptiesStore ==
  [][ ( /\ last'.method = "cleanup_all_data"
        /\ last'.out.value.status = 200
        /\ \A r \in Reqs : ~InFlight(r) )
      => /\ \A k \in DOMAIN redis' : redis'[k] = Nil
         /\ \A c \in DOMAIN conversations' : conversations'[c] = NoRecord
         /\ characters' = {}
         /\ charList' = {}
         /\ AllKeys' = {}
         /\ last'.out.value.body.deleted_count = Cardinality(AllKeys) ]_vars

\* a cleanup has deleted two conversations, two characters and the set
C34_Witness ==
  /\ last.method = "cleanup_all_data"
  /\ last.out.value.status = 200
  /\ last.out.value.body.deleted_count = 5
  /\ AllKeys = {}

\* C35: list_conversations returns one summary for each conversation it
\* has loaded and no other, every stored conversation being loaded when no
\* store call of the listing raised; message_count is the length of the
\* persisted transcript, total the number of summaries, and no summary
\* comes before one with a later updated_at
C35_ListIsSortedSummary ==
  last.method = "list_conversations" =>
    LET conversation_list == last.out.value.conversations
        n == Len(conversation_list)
        stored == {k \in DOMAIN redis : redis[k] # Nil}
    IN /\ ~last.out.raised
       /\ last.out.value.total = n
       /\ last.loaded \subseteq stored
       /\ last.point = "ok" => last.loaded = stored
       /\ \A k \in last.loaded :
            Cardinality({i \in 1..n : conversation_list[i].id = k}) = 1
       /\ \A i \in 1..n :
            LET k == conversation_list[i].id
            IN /\ k \in last.loaded
               /\ conversation_list[i].message_count
                    = Len(redis[k].messages)
               /\ conversation_list[i].updated_at
                    = fromisoformat(redis[k].updated_at)
       /\ \A i, j \in 1..n :
            i < j => Instant(conversation_list[i].updated_at)
                       >= Instant(conversation_list[j].updated_at)

\* a listing of two conversations of different length, returned in the
\* reverse of the order of the keys
C35_Witness ==
  /\ last.method = "list_conversations"
  /\ last.out.value.total = 2
  /\ last.arg[1] = last.out.value.conversations[2].id
  /\ last.out.value.conversations[1].message_count = 2
  /\ last.out.value.conversations[2].message_count = 0
  /\ Instant(last.out.value.conversations[1].updated_at)
       > Instant(last.out.value.conversations[2].updated_at)

====
